---- MODULE Spec2Model ----
(***************************************************************************)
(* Model of the CookX Gemini client (src/server/gemini_client.py) and of   *)
(* its manual script (src/test-gemini-python.py).                          *)
(*                                                                         *)
(* Python values are tagged records: None, Str(s), Dict(d), IntVal(n),     *)
(* List(l).  A Python string is a sequence of text pieces, so that         *)
(* concatenation is \o, the empty string is << >>, and the pieces a        *)
(* formatted string was built from can be told apart again.                *)
(***************************************************************************)
EXTENDS Integers, Sequences, FiniteSets, TLC

\* Longest ingredients list a caller passes.
MaxIngredients == 2

----------------------------------------------------------------------------
\* Python values

None == [tag |-> "None"]
Str(s) == [tag |-> "str", val |-> s]
Dict(d) == [tag |-> "dict", val |-> d]
IntVal(n) == [tag |-> "int", val |-> n]
List(l) == [tag |-> "list", val |-> l]
\* A parameter the caller leaves out of the call.
Omitted == [tag |-> "omitted"]

\* bool(v) for None and str values.
Truthy(v) == v.tag = "str" /\ v.val # << >>

\* raise type(msg)
Exc(type, msg) == [type |-> type, msg |-> msg]

----------------------------------------------------------------------------
\* Values the callers, the environment and the remote service draw from

KeyNames == {"name", "quantity", "unit", "location"}
OptionalKeys == {"quantity", "unit", "location"}

FieldValue(k) ==
    CASE k = "quantity" -> <<"2">>
      [] k = "unit" -> <<"cup">>
      [] k = "location" -> <<"Fridge">>

\* A dict with the given name and exactly the optional keys ks.
Record(name, ks) ==
    [k \in {"name"} \cup ks |-> IF k = "name" THEN name ELSE FieldValue(k)]

\* Well-formed ingredient records: every subset of the optional keys present.
GoodRecords ==
    {Dict(Record(<<"Rice">>, ks)) : ks \in SUBSET OptionalKeys}
        \cup {Dict(Record(<<"Egg">>, OptionalKeys))}

\* Items that are no ingredient record: a dict without 'name', a non-dict.
BadItems == {Dict([k \in {"quantity"} |-> <<"2">>]), IntVal(5)}

Items == GoodRecords \cup BadItems

\* The items a list may hold any number of; of the others it holds at most
\* one, at any position.
CommonItems ==
    {Dict(Record(<<"Rice">>, OptionalKeys)),
     Dict(Record(<<"Egg">>, OptionalKeys)),
     Dict([k \in {"quantity"} |-> <<"2">>])}

ItemLists ==
    {l \in UNION {[1..n -> Items] : n \in 0..MaxIngredients} :
        Cardinality({i \in DOMAIN l : l[i] \notin CommonItems}) <= 1}

\* The ingredients arguments: lists, and a value that is no list.
IngredientArgs == {List(l) : l \in ItemLists} \cup {None}

PreferenceArgs == {Omitted, None, Str(<< >>), Str(<<"vegan">>)}

EnvValues == {None, Str(<< >>), Str(<<"key-1">>), Str(<<"key-2">>)}

ResponseTexts == {<<"RECIPE NAME: Fried rice">>, <<"RECIPE NAME: Cookies">>, << >>}

RemoteErrors ==
    {Exc("ResourceExhausted", <<"429 quota exceeded">>),
     Exc("ValueError", <<"response was blocked">>),
     Exc("ConnectionError", << >>)}

\* What the remote side does to one invocation: the step that raises (if
\* any) and the exception it raises, or the text of the response.
RemoteBehaviours ==
    {[failAt |-> "none", text |-> t] : t \in ResponseTexts}
        \cup {[failAt |-> s, exc |-> e] :
                s \in {"GenerativeModel", "generate_content", "text"},
                e \in RemoteErrors}

NoRemote == [failAt |-> "unused"]

----------------------------------------------------------------------------
\* The module's constant texts

MissingKeyMessage == <<"GEMINI_API_KEY environment variable is not set">>
WrapPrefix == "Error calling Gemini API: "
ModelName == <<"gemini-1.5-pro-latest">>
TestPrompt == <<"Hello! Please respond with a simple test recipe for cookies.">>
TestMessage == <<"Gemini API test successful">>
NoPreferences == <<"No specific preferences">>
DefaultLocation == <<"Kitchen">>

PromptHead == "\nI have the following ingredients:\n"
PromptPreferences == "\n\nUser preferences: "
PromptTail == "\n\nBased on these ingredients and preferences, suggest 3 recipes I can make.\n\nFormat each recipe as follows:\nRECIPE NAME: [name]\nCUISINE: [cuisine type]\nDIETARY INFO: [vegetarian, vegan, gluten-free, etc.]\nPREP TIME: [minutes]\nCOOK TIME: [minutes]\nSERVINGS: [number]\nINGREDIENTS:\n- [ingredient with quantity]\n- [ingredient with quantity]\n...\nINSTRUCTIONS:\n1. [step]\n2. [step]\n...\n\nOnly include recipes that I can make with the provided ingredients, with minimal additional ingredients. Follow the user preferences strictly.\n"

----------------------------------------------------------------------------
\* Prompt building (get_recipe_recommendations, lines 29-60)

\* An evaluation that may raise: a value or an exception.
Value(v) == [ok |-> TRUE, val |-> v]
Raised(e) == [ok |-> FALSE, exc |-> e]

\* d.get(k): a missing key yields None, which the f-string renders "None".
GetNoDefault(d, k, default) == IF k \in DOMAIN d THEN d[k] ELSE <<"None">>

\* d.get(k, default)
Get(d, k, default) == IF k \in DOMAIN d THEN d[k] ELSE default

\* ing['name']
Subscript(ing, k) ==
    CASE ing.tag = "dict" /\ k \in DOMAIN ing.val -> Value(ing.val[k])
      [] ing.tag = "dict" /\ k \notin DOMAIN ing.val ->
            Raised(Exc("KeyError", <<"'", k, "'">>))
      [] OTHER ->
            Raised(Exc("TypeError",
                       <<"'", ing.tag, "' object is not subscriptable">>))

\* The f-string of line 30 for one item of the list.
FormatIngredient(ing) ==
    LET name == Subscript(ing, "name") IN
    IF ~name.ok THEN name
    ELSE Value(name.val \o <<" (">> \o Get(ing.val, "quantity", << >>)
               \o <<" ">> \o Get(ing.val, "unit", << >>)
               \o <<", stored in ">>
               \o Get(ing.val, "location", DefaultLocation) \o <<")">>)

\* The join that puts the parts in reverse order.
RECURSIVE JoinReversed(_, _)
JoinReversed(sep, parts) ==
    IF parts = << >> THEN << >>
    ELSE IF Len(parts) = 1 THEN parts[1]
    ELSE JoinReversed(sep, Tail(parts)) \o <<sep>> \o parts[1]

\* sep.join(parts)
RECURSIVE Join(_, _)
Join(sep, parts) ==
    IF parts = << >> THEN << >>
    ELSE IF Len(parts) = 1 THEN parts[1]
    ELSE parts[1] \o <<sep>> \o Join(sep, Tail(parts))

\* The list comprehension of lines 29-32: the first item that raises ends it.
ingredient_list(ingr) ==
    IF ingr.tag # "list"
    THEN Raised(Exc("TypeError",
                    <<"'", ingr.tag, "' object is not iterable">>))
    ELSE LET l == ingr.val
             lines == [i \in 1..Len(l) |-> FormatIngredient(l[i])]
             bad == {i \in 1..Len(l) : ~lines[i].ok}
         IN IF bad # {}
            THEN lines[CHOOSE i \in bad : \A j \in bad : i <= j]
            ELSE Value(Join("\n", [i \in 1..Len(l) |-> lines[i].val]))

\* The default applied only to None: an empty string is rendered as it is.
PreferencesTextNoneOnly(prefs) ==
    IF prefs = None THEN NoPreferences ELSE prefs.val

\* preferences or "No specific preferences"
PreferencesText(prefs) ==
    IF Truthy(prefs) THEN prefs.val ELSE NoPreferences

\* The parameter's value: its default (None) when the caller omits it.
PreferencesParam(arg) == IF arg = Omitted THEN None ELSE arg

\* The prompt of lines 35-60.
BuildPrompt(ingr, prefs) ==
    LET il == ingredient_list(ingr) IN
    IF ~il.ok THEN il
    ELSE Value(<<PromptHead>> \o il.val \o <<PromptPreferences>>
               \o PreferencesText(prefs) \o <<PromptTail>>)

----------------------------------------------------------------------------
\* State

VARIABLES
    env,          \* os.environ.get("GEMINI_API_KEY") as of now: None or a str
    loaded,       \* whether server/gemini_client.py has been imported
    API_KEY,      \* the module global of line 6
    configured,   \* whether genai.configure was called (line 8)
    ingredients,  \* the caller's ingredients argument
    preferences,  \* the caller's preferences argument (Omitted: left out)
    call,         \* the latest invocation of a client method and its outcome
    pc,           \* the script's position
    test_result,  \* the script's local of line 22
    response,     \* the script's local of line 38
    stdout,       \* the lines the script has printed
    exitStatus    \* the script's exit status, None while it has not exited

vars == <<env, loaded, API_KEY, configured, ingredients, preferences, call,
          pc, test_result, response, stdout, exitStatus>>

scriptVars == <<pc, test_result, response, stdout, exitStatus>>

Unbound == [tag |-> "unbound"]
NoCall == [method |-> "none"]

----------------------------------------------------------------------------
\* The client methods

\* The credential looked up in the environment at each call.
CredentialFromEnv == env

\* The credential a method tests: the module global, never the environment.
Credential == API_KEY

\* The guard as `if API_KEY is None`: an empty credential passes it.
CredentialMissingNoneOnly == Credential = None

\* if not API_KEY (lines 25 and 82)
CredentialMissing == ~Truthy(Credential)

\* The handler that drops the original message.
WrapNoMessage(e) == Exc("Exception", <<WrapPrefix>>)

\* The handler as a bare `raise`: the original exception passes through.
WrapReraise(e) == e

\* except Exception as e: raise Exception(f"Error calling Gemini API: {str(e)}")
Wrap(e) == Exc("Exception", <<WrapPrefix>> \o e.msg)

\* The try block with one retry of a failed generate_content.
TryGenerateRetry(prompt, r) ==
    LET create == [op |-> "GenerativeModel", arg |-> ModelName]
        generate == [op |-> "generate_content", arg |-> prompt]
    IN CASE r.failAt = "GenerativeModel" ->
                [ops |-> <<create>>, out |-> Raised(r.exc)]
         [] r.failAt = "generate_content" ->
                [ops |-> <<create, generate, generate>>, out |-> Raised(r.exc)]
         [] r.failAt = "text" ->
                [ops |-> <<create, generate>>, out |-> Raised(r.exc)]
         [] OTHER ->
                [ops |-> <<create, generate>>, out |-> Value(r.text)]

\* The body of the try blocks (lines 65-69, 87-93) up to response.text: the
\* remote operations attempted, and response.text or the exception raised.
TryGenerate(prompt, r) ==
    LET create == [op |-> "GenerativeModel", arg |-> ModelName]
        generate == [op |-> "generate_content", arg |-> prompt]
    IN CASE r.failAt = "GenerativeModel" ->
                [ops |-> <<create>>, out |-> Raised(r.exc)]
         [] r.failAt \in {"generate_content", "text"} ->
                [ops |-> <<create, generate>>, out |-> Raised(r.exc)]
         [] OTHER ->
                [ops |-> <<create, generate>>, out |-> Value(r.text)]

\* The methods returning the bare response text, whatever they should return.
OutcomeBareText(t, ret) ==
    IF t.out.ok THEN Value(t.out.val) ELSE Raised(Wrap(t.out.exc))

\* What the try/except of a method makes of the try block's outcome; ret is
\* the value the method returns for a response text.
Outcome(t, ret) == IF t.out.ok THEN Value(ret) ELSE Raised(Wrap(t.out.exc))

\* GeminiClient.get_recipe_recommendations(ingredients, preferences) against
\* remote behaviour r.
get_recipe_recommendations(ingr, prefArg, r) ==
    LET m == "get_recipe_recommendations" IN
    IF CredentialMissing
    THEN [method |-> m, ops |-> << >>, remote |-> NoRemote,
          result |-> Raised(Exc("ValueError", MissingKeyMessage))]
    ELSE LET p == BuildPrompt(ingr, PreferencesParam(prefArg)) IN
         IF ~p.ok
         THEN [method |-> m, ops |-> << >>, remote |-> NoRemote, result |-> p]
         ELSE LET t == TryGenerate(p.val, r) IN
              [method |-> m, ops |-> t.ops, remote |-> r,
               result |-> Outcome(t, IF t.out.ok THEN t.out.val ELSE << >>)]

\* GeminiClient.test_connection() against remote behaviour r.
test_connection(r) ==
    LET m == "test_connection" IN
    IF CredentialMissing
    THEN [method |-> m, ops |-> << >>, remote |-> NoRemote,
          result |-> Raised(Exc("ValueError", MissingKeyMessage))]
    ELSE LET t == TryGenerate(TestPrompt, r) IN
         [method |-> m, ops |-> t.ops, remote |-> r,
          result |-> Outcome(t, [message |-> TestMessage,
                                 response |-> IF t.out.ok THEN t.out.val
                                              ELSE << >>])]

----------------------------------------------------------------------------
\* The client under an arbitrary caller

Init ==
    /\ env \in EnvValues
    /\ loaded = FALSE
    /\ API_KEY = Unbound
    /\ configured = FALSE
    /\ ingredients \in IngredientArgs
    /\ preferences \in PreferenceArgs
    /\ call = NoCall
    /\ pc = "not running"
    /\ test_result = None
    /\ response = None
    /\ stdout = << >>
    /\ exitStatus = None

\* Import of the module: lines 6-8.
Load ==
    /\ ~loaded
    /\ loaded' = TRUE
    /\ API_KEY' = env
    /\ configured' = Truthy(env)
    /\ UNCHANGED <<env, ingredients, preferences, call, scriptVars>>

\* The process changes GEMINI_API_KEY in its environment after the import.
SetEnv ==
    /\ loaded
    /\ \E v \in EnvValues \ {env} : env' = v
    /\ UNCHANGED <<loaded, API_KEY, configured, ingredients, preferences,
                   call, scriptVars>>

CallGetRecipeRecommendations ==
    /\ loaded
    /\ \E r \in RemoteBehaviours :
          call' = get_recipe_recommendations(ingredients, preferences, r)
    /\ UNCHANGED <<env, loaded, API_KEY, configured, ingredients,
                   preferences, scriptVars>>

CallTestConnection ==
    /\ loaded
    /\ \E r \in RemoteBehaviours : call' = test_connection(r)
    /\ UNCHANGED <<env, loaded, API_KEY, configured, ingredients,
                   preferences, scriptVars>>

Next ==
    \/ Load
    \/ SetEnv
    \/ CallGetRecipeRecommendations
    \/ CallTestConnection

Spec == Init /\ [][Next]_vars

----------------------------------------------------------------------------
\* The manual script (src/test-gemini-python.py)

\* The ingredients of lines 28-34.
ScriptIngredients ==
    LET ing(n, q, u, l) ==
            Dict([k \in KeyNames |->
                     CASE k = "name" -> <<n>> [] k = "quantity" -> <<q>>
                       [] k = "unit" -> <<u>> [] k = "location" -> <<l>>])
    IN List(<<ing("Chicken", "2", "breasts", "Fridge"),
              ing("Rice", "1", "cup", "Pantry"),
              ing("Broccoli", "1", "head", "Fridge"),
              ing("Garlic", "3", "cloves", "Pantry"),
              ing("Soy Sauce", "1/4", "cup", "Fridge")>>)

\* The preferences of line 36.
ScriptPreferences == Str(<<"Healthy recipes with low sodium">>)

ScriptInit ==
    /\ env \in EnvValues
    /\ loaded = FALSE
    /\ API_KEY = Unbound
    /\ configured = FALSE
    /\ ingredients = Unbound
    /\ preferences = Unbound
    /\ call = NoCall
    /\ pc = "import"
    /\ test_result = None
    /\ response = None
    /\ stdout = << >>
    /\ exitStatus = None

\* print(line1); print(line2); ...
Emit(lines) == stdout' = stdout \o lines

\* An exit that reports success whatever the status asked for.
ExitZero(status) == pc' = "exited" /\ exitStatus' = IntVal(0)

\* sys.exit(status); SystemExit is no Exception, so line 43 lets it pass.
Exit(status) == pc' = "exited" /\ exitStatus' = IntVal(status)

\* except Exception as e (lines 43-45)
Except(e) == Emit(<< <<"Error testing Gemini API: ">> \o e.msg >>) /\ Exit(1)

\* Line 9: the import runs the module's lines 6-8.
ScriptImport ==
    /\ pc = "import"
    /\ loaded' = TRUE
    /\ API_KEY' = env
    /\ configured' = Truthy(env)
    /\ pc' = "check"
    /\ UNCHANGED <<env, ingredients, preferences, call, test_result,
                   response, stdout, exitStatus>>

\* Lines 15-19.
ScriptCheckKey ==
    /\ pc = "check"
    /\ IF env = None
       THEN /\ Emit(<< <<"Error: GEMINI_API_KEY environment variable is not set">> >>)
            /\ Exit(1)
       ELSE /\ Emit(<< <<"Testing Gemini API connection...">> >>)
            /\ pc' = "test_connection"
            /\ UNCHANGED exitStatus
    /\ UNCHANGED <<env, loaded, API_KEY, configured, ingredients,
                   preferences, call, test_result, response>>

\* Lines 22-24, and lines 43-45 when the call raises.
ScriptTestConnection ==
    /\ pc = "test_connection"
    /\ \E r \in RemoteBehaviours :
          LET c == test_connection(r) IN
          /\ call' = c
          /\ IF c.result.ok
             THEN /\ test_result' = c.result.val
                  /\ Emit(<< <<"Connection test successful!">>,
                              <<"Response: ">> \o c.result.val.response >>)
                  /\ pc' = "recommend"
                  /\ UNCHANGED exitStatus
             ELSE /\ Except(c.result.exc)
                  /\ UNCHANGED test_result
    /\ UNCHANGED <<env, loaded, API_KEY, configured, ingredients,
                   preferences, response>>

\* Lines 27-41, lines 43-45 when the call raises, and the normal end of the
\* script (exit status 0) when it does not.
ScriptRecommend ==
    /\ pc = "recommend"
    /\ ingredients' = ScriptIngredients
    /\ preferences' = ScriptPreferences
    /\ \E r \in RemoteBehaviours :
          LET c == get_recipe_recommendations(ScriptIngredients,
                                            ScriptPreferences, r) IN
          /\ call' = c
          /\ IF c.result.ok
             THEN /\ response' = Str(c.result.val)
                  /\ Emit(<< <<"\nTesting recipe recommendations...">>,
                              <<"Recipe recommendations received!">>,
                              <<"\nResponse:">>, c.result.val >>)
                  /\ Exit(0)
             ELSE /\ Emit(<< <<"\nTesting recipe recommendations...">>,
                              <<"Error testing Gemini API: ">>
                                  \o c.result.exc.msg >>)
                  /\ Exit(1)
                  /\ UNCHANGED response
    /\ UNCHANGED <<env, loaded, API_KEY, configured, test_result>>

ScriptNext ==
    \/ ScriptImport
    \/ ScriptCheckKey
    \/ ScriptTestConnection
    \/ ScriptRecommend

ScriptSpec == ScriptInit /\ [][ScriptNext]_vars

----------------------------------------------------------------------------
\* Vocabulary of the properties

Called == call.method # "none"
Failed == Called /\ ~call.result.ok
CredentialSet == Truthy(API_KEY)

\* The missing-credential error.
MissingCredential(c) ==
    ~c.result.ok /\ c.result.exc = Exc("ValueError", MissingKeyMessage)

\* The remote-call failure: an Exception whose message starts with the prefix.
RemoteCallFailure(c) ==
    /\ ~c.result.ok
    /\ c.result.exc.type = "Exception"
    /\ c.result.exc.msg # << >>
    /\ Head(c.result.exc.msg) = WrapPrefix

\* The prompts an invocation passed to generate_content, in order.
Requests(c) == SelectSeq(c.ops, LAMBDA o : o.op = "generate_content")

\* An ingredients argument prompt building accepts: a list of dicts that all
\* have a 'name' key.
WellFormed(ingr) ==
    /\ ingr.tag = "list"
    /\ \A i \in DOMAIN ingr.val :
          ingr.val[i].tag = "dict" /\ "name" \in DOMAIN ingr.val[i].val

----------------------------------------------------------------------------
\* C1: whichever method is called and whatever its arguments, a call made
\* while the credential is not set (None or empty) raises the
\* missing-credential ValueError and attempts no remote operation: neither a
\* GenerativeModel construction nor a generate_content.
C1_MissingCredentialFailsFirst ==
    (Called /\ ~CredentialSet) =>
        /\ call.result = Raised(Exc("ValueError", MissingKeyMessage))
        /\ call.ops = << >>

\* An empty credential and a malformed ingredients argument: the credential
\* error still comes first.
C1_Witness ==
    /\ call.method = "get_recipe_recommendations"
    /\ API_KEY = Str(<< >>)
    /\ ~WellFormed(ingredients)
    /\ MissingCredential(call)

\* C2: with the credential set, an exception raised by creating the model, by
\* generate_content or by reading response.text reaches the caller as an
\* Exception whose message is the prefix followed by the original message.
C2_RemoteFailureWrapped ==
    (Called /\ CredentialSet /\ call.remote.failAt
                   \in {"GenerativeModel", "generate_content", "text"}) =>
        call.result =
            Raised(Exc("Exception", <<WrapPrefix>> \o call.remote.exc.msg))

C2_Witness ==
    /\ call.method = "test_connection"
    /\ CredentialSet
    /\ call.remote.failAt = "text"
    /\ call.remote.exc.type = "ValueError"
    /\ RemoteCallFailure(call)

PromptBuilt ==
    call.method = "test_connection" \/ WellFormed(ingredients)

\* C4 as claimed: an invocation issues exactly one generate_content request
\* when the credential is set and prompt building succeeds, none otherwise.
C4_ExactlyOneRequest ==
    Called =>
        Len(Requests(call)) = IF CredentialSet /\ PromptBuilt THEN 1 ELSE 0

\* C4 as amended: an invocation issues at most one generate_content request:
\* exactly one when the credential is set, prompt building succeeds and
\* creating the model does not raise, none otherwise; a failed request is not
\* repeated.
C4_AtMostOneRequest ==
    Called =>
        /\ Len(Requests(call)) <= 1
        /\ Len(Requests(call)) =
               IF /\ CredentialSet
                  /\ PromptBuilt
                  /\ call.remote.failAt # "GenerativeModel"
               THEN 1 ELSE 0

C4_Witness ==
    /\ Called
    /\ call.remote.failAt = "generate_content"
    /\ Failed
    /\ Len(Requests(call)) = 1

----------------------------------------------------------------------------
\* Reading a prompt back

\* The first position of piece x in string s; 0 when it is not there.
IndexOf(s, x) ==
    IF \E i \in DOMAIN s : s[i] = x
    THEN CHOOSE i \in DOMAIN s : s[i] = x /\ \A j \in 1..(i - 1) : s[j] # x
    ELSE 0

\* How many times piece x occurs in string s.
Count(s, x) == Cardinality({i \in DOMAIN s : s[i] = x})

\* s.split(sep), except that the empty string has no line.
RECURSIVE Split(_, _)
Split(s, sep) ==
    IF s = << >> THEN << >>
    ELSE LET i == IndexOf(s, sep) IN
         IF i = 0 THEN <<s>>
         ELSE IF i = Len(s) THEN <<SubSeq(s, 1, i - 1), << >> >>
         ELSE <<SubSeq(s, 1, i - 1)>> \o Split(SubSeq(s, i + 1, Len(s)), sep)

\* The text of a prompt between its heading and its "User preferences:" line.
IngredientSection(prompt) ==
    SubSeq(prompt, 2, IndexOf(prompt, PromptPreferences) - 1)

\* The text of the "User preferences:" line after its label.
PreferencesLine(prompt) ==
    SubSeq(prompt, IndexOf(prompt, PromptPreferences) + 1,
           IndexOf(prompt, PromptTail) - 1)

\* The latest invocation is a get_recipe_recommendations that sent a prompt.
Sent(c) ==
    /\ c.method = "get_recipe_recommendations"
    /\ Requests(c) # << >>
SentPrompt(c) == Requests(c)[1].arg

IngredientLines(c) == Split(IngredientSection(SentPrompt(c)), "\n")

\* C5: the prompt get_recipe_recommendations sends has one line per
\* ingredient, in input order, and the line of an ingredient holds its name
\* and each of the quantity, unit and location it has exactly once; two
\* successive invocations with the same arguments send the same prompt.
C5_PromptListsIngredients ==
    /\ [](Sent(call) =>
            LET l == ingredients.val
                lines == IngredientLines(call)
            IN /\ Head(SentPrompt(call)) = PromptHead
               /\ Len(lines) = Len(l)
               /\ \A i \in DOMAIN l : \A k \in DOMAIN l[i].val :
                     /\ Len(l[i].val[k]) = 1
                     /\ Count(lines[i], l[i].val[k][1]) = 1
               /\ \A i \in DOMAIN l : Head(lines[i]) = l[i].val.name[1])
    /\ [][(Sent(call) /\ Sent(call') /\ ingredients' = ingredients
              /\ preferences' = preferences)
            => SentPrompt(call') = SentPrompt(call)]_vars

\* Two ingredients with different names, the second without a unit.
C5_Witness ==
    /\ Sent(call)
    /\ Len(ingredients.val) = 2
    /\ ingredients.val[1].val.name = <<"Egg">>
    /\ ingredients.val[2].val.name = <<"Rice">>
    /\ "unit" \notin DOMAIN ingredients.val[2].val
    /\ call.result.ok

\* The line of line 30 for a record, with the defaults the claim names.
ExpectedLine(d) ==
    d.name \o <<" (">>
        \o (IF "quantity" \in DOMAIN d THEN d.quantity ELSE << >>)
        \o <<" ">>
        \o (IF "unit" \in DOMAIN d THEN d.unit ELSE << >>)
        \o <<", stored in ">>
        \o (IF "location" \in DOMAIN d THEN d.location ELSE <<"Kitchen">>)
        \o <<")">>

\* C6: with the credential set, records that lack 'quantity', 'unit' or
\* 'location' (any subset of the three) do not make
\* get_recipe_recommendations raise: prompt building completes and the try
\* block is entered, so that the only failure left is the remote-call
\* failure; in the prompt sent a missing location reads "Kitchen" and a
\* missing quantity or unit reads as the empty string.
C6_MissingFieldsDefault ==
    (call.method = "get_recipe_recommendations" /\ CredentialSet
        /\ WellFormed(ingredients)) =>
        /\ call.ops # << >>
        /\ Failed => (RemoteCallFailure(call) /\ call.remote.failAt # "none")
        /\ call.remote.failAt # "GenerativeModel" => Sent(call)
        /\ Sent(call) =>
              \A i \in DOMAIN ingredients.val :
                 IngredientLines(call)[i]
                    = ExpectedLine(ingredients.val[i].val)

\* A record with none of the three optional keys.
C6_Witness ==
    /\ Sent(call)
    /\ \E i \in DOMAIN ingredients.val :
          DOMAIN ingredients.val[i].val = {"name"}
    /\ call.result.ok

\* C8: a method that succeeds returns the response text as the remote side
\* gave it: get_recipe_recommendations returns the text itself,
\* test_connection - which always sends the same prompt - a record with the
\* fixed message and the text.
C8_ReturnsResponseText ==
    (Called /\ call.result.ok) =>
        /\ call.remote.failAt = "none"
        /\ call.method = "get_recipe_recommendations" =>
              call.result.val = call.remote.text
        /\ call.method = "test_connection" =>
              /\ call.result.val =
                    [message |-> <<"Gemini API test successful">>,
                     response |-> call.remote.text]
              /\ Requests(call) = <<[op |-> "generate_content",
                                     arg |-> TestPrompt]>>

C8_Witness ==
    /\ call.method = "test_connection"
    /\ call.result.ok
    /\ call.result.val.response = <<"RECIPE NAME: Cookies">>

\* C9: the module reads the credential when it is loaded and never again:
\* API_KEY is the environment's value at load and no later step changes it,
\* whatever becomes of the environment variable; a call fails with the
\* missing-credential error exactly when API_KEY is None or empty.
C9_CredentialFixedAtLoad ==
    /\ [][(~loaded /\ loaded') => API_KEY' = env]_vars
    /\ [][loaded => API_KEY' = API_KEY]_vars
    /\ [](Called =>
            (MissingCredential(call) <=> API_KEY \in {None, Str(<< >>)}))

\* The variable is set after a load without it: the call still fails.
C9_Witness ==
    /\ Called
    /\ API_KEY = None
    /\ Truthy(env)
    /\ MissingCredential(call)

\* Preference arguments that stand for no preference.
NoPreferenceArgs == {Omitted, None, Str(<< >>)}

\* C10: the "User preferences:" line of the prompt reads "No specific
\* preferences" when the preferences argument is omitted, None or empty, and
\* the argument itself otherwise; the ingredient section of the prompt is the
\* one every other preferences argument would give.
C10_PreferencesOptional ==
    Sent(call) =>
        /\ PreferencesLine(SentPrompt(call)) =
              IF preferences \in NoPreferenceArgs
              THEN <<"No specific preferences">>
              ELSE preferences.val
        /\ \A p \in PreferenceArgs :
              IngredientSection(
                  BuildPrompt(ingredients, PreferencesParam(p)).val)
                = IngredientSection(SentPrompt(call))

C10_Witness ==
    /\ Sent(call)
    /\ preferences = Str(<< >>)
    /\ Len(ingredients.val) = 2

----------------------------------------------------------------------------
\* C7: the script exits with a non-zero status when its credential check
\* fails (having called nothing), and when test_connection or
\* get_recipe_recommendations raises; it calls get_recipe_recommendations only
\* after test_connection has returned; it exits with status 0 only after
\* both calls have returned; and once it has exited it takes no further step.
C7_ScriptStopsAtFirstFailure ==
    /\ (env = None /\ pc \notin {"import", "check"}) =>
          (pc = "exited" /\ exitStatus = IntVal(1) /\ call = NoCall)
    /\ Failed => (pc = "exited" /\ exitStatus = IntVal(1))
    /\ call.method = "get_recipe_recommendations" =>
          (test_result # None /\ stdout[2] = <<"Connection test successful!">>)
    /\ exitStatus = IntVal(0) =>
          /\ pc = "exited"
          /\ test_result # None
          /\ response # None
          /\ call.method = "get_recipe_recommendations"
          /\ call.result.ok
    /\ pc = "exited" => (exitStatus \in {IntVal(0), IntVal(1)}
                          /\ ~ENABLED ScriptNext)
    /\ pc # "exited" => exitStatus = None

\* test_connection returned, get_recipe_recommendations raised, exit status 1.
C7_Witness ==
    /\ pc = "exited"
    /\ exitStatus = IntVal(1)
    /\ test_result # None
    /\ call.method = "get_recipe_recommendations"
    /\ Failed

====
